---------------------------- MODULE Spec2Model ----------------------------
(***************************************************************************)
(* Model of the GVM LED controller (src/src/bluetooth.rs, gui.rs, main.rs).*)
(*                                                                         *)
(* Five state machines share this module:                                  *)
(*   - one connection session (Led::connection) with its command           *)
(*     dispatcher (write_state, write_state_no_cmp) and the device it      *)
(*     writes to;                                                          *)
(*   - the same session with its health check / reconnect loop and the     *)
(*     environment of the link;                                            *)
(*   - the scanner (scan_forever consumed by scan_and_spawn);              *)
(*   - one device handle under Led::discover_mac;                          *)
(*   - the GUI's render pass (Gui::update) for one light and the channel   *)
(*     to its session.                                                     *)
(***************************************************************************)
EXTENDS Naturals, Sequences, FiniteSets

(***************************************************************************)
(* Settings snapshots (gui.rs: LightSettingsState).                        *)
(***************************************************************************)
Hsi == "Hsi"
Cct == "Cct"
LightMode == {Hsi, Cct}

\* gui.rs, impl Default for LightSettingsState
DefaultHue == 0
DefaultIntensity == 10
DefaultSaturation == 100
DefaultTemperature == 32

\* Sample values of the u8 fields: the default of each field and one or two
\* other values.
HueVals == {DefaultHue, 40}
SaturationVals == {DefaultSaturation, 30}
IntensityVals == {DefaultIntensity, 50}
TemperatureVals == {DefaultTemperature, 5, 9}

LightSettingsState ==
    [enabled : BOOLEAN, mode : LightMode, hue : HueVals,
     saturation : SaturationVals, intensity : IntensityVals,
     temperature : TemperatureVals]

Default ==
    [enabled |-> TRUE, hue |-> DefaultHue, intensity |-> DefaultIntensity,
     saturation |-> DefaultSaturation, temperature |-> DefaultTemperature,
     mode |-> Cct]

(***************************************************************************)
(* Logical commands (the values handed to Led::cmd).                       *)
(***************************************************************************)
PowerCommand(on) ==
    [family |-> "Power", variant |-> IF on THEN "On" ELSE "Off", value |-> 0]

ModeCommand(m) == [family |-> "Mode", variant |-> m, value |-> 0]

HsiCommand(variant, v) == [family |-> "Hsi", variant |-> variant, value |-> v]

ColorTemperatureCommand(v) ==
    [family |-> "ColorTemperature", variant |-> "Kelvin", value |-> v]

\* <<c>> when the guard holds, nothing otherwise: one `if ... { led.cmd(c) }`.
When(guard, c) == IF guard THEN <<c>> ELSE <<>>

(***************************************************************************)
(* The frame of a command (Packable::to_wire) and what Led::cmd writes.    *)
(* Layout: magic 4C 54, length 09 00, five opcode bytes, the data byte and *)
(* a two-byte big-endian checksum over the ten bytes before it: CRC-16     *)
(* with polynomial 0x1021, initial value 0, no reflection.                 *)
(***************************************************************************)
RECURSIVE xor(_, _)
xor(a, b) ==
    IF a = 0 THEN b
    ELSE IF b = 0 THEN a
    ELSE ((a + b) % 2) + (2 * xor(a \div 2, b \div 2))

\* One shift of the 16-bit register.
crc_shift(crc) ==
    IF crc >= 32768
      THEN xor((crc * 2) % 65536, 4129)
      ELSE (crc * 2) % 65536

\* n shifts; each value is worked out before the next shift is taken.
RECURSIVE crc_shifts(_, _)
crc_shifts(crc, n) ==
    IF n = 0
      THEN crc
      ELSE LET next == crc_shift(crc)
           IN  IF next \in Nat THEN crc_shifts(next, n - 1) ELSE next

RECURSIVE crc16(_, _)
crc16(crc, bytes) ==
    IF bytes = <<>>
      THEN crc
      ELSE LET next == crc_shifts(xor(crc, Head(bytes) * 256), 8)
           IN  IF next \in Nat THEN crc16(next, Tail(bytes)) ELSE next

Magic == <<76, 84>>
FrameLength == <<9, 0>>
PowerOpcode == <<48, 87, 0, 0, 1>>

\* The frame of a Power command: its data byte is 1 for On, 0 for Off.
to_wire(command) ==
    LET data == IF command.variant = "On" THEN 1 ELSE 0
        body == Magic \o FrameLength \o PowerOpcode \o <<data>>
        crc == crc16(0, body)
    IN  body \o <<crc \div 256, crc % 256>>

\* Faulty variant: the frame is written without its checksum.
cmd_data_unchecked(command) == SubSeq(to_wire(command), 1, 10)

\* Led::cmd: `let data = command.to_wire();` is what peripheral.write gets.
cmd_data(command) == to_wire(command)

(***************************************************************************)
(* Faulty variants of the dispatcher, used to show that the properties     *)
(* below depend on it.                                                     *)
(***************************************************************************)
\* The initial write diffed against the default instead of written in full.
write_state_no_cmp_diffed(s) ==
    When(s.enabled # Default.enabled, PowerCommand(s.enabled)) \o
    When(s.temperature # Default.temperature,
         ColorTemperatureCommand(s.temperature)) \o
    When(s.intensity # Default.intensity, HsiCommand("Intensity", s.intensity))

\* The mode switched before the scalars are written.
write_state_mode_first(s, p) ==
    When(s.enabled # p.enabled, PowerCommand(s.enabled)) \o
    When(s.mode # p.mode, ModeCommand(s.mode)) \o
    (IF s.mode = Hsi
       THEN When(s.hue # p.hue, HsiCommand("Hue", s.hue)) \o
            When(s.saturation # p.saturation,
                 HsiCommand("Saturation", s.saturation)) \o
            When(s.intensity # p.intensity,
                 HsiCommand("Intensity", s.intensity))
       ELSE When(s.temperature # p.temperature,
                 ColorTemperatureCommand(s.temperature)) \o
            When(s.intensity # p.intensity,
                 HsiCommand("Intensity", s.intensity)))

\* The power command written on every update.
write_state_power_always(s, p) ==
    <<PowerCommand(s.enabled)>> \o
    (IF s.mode = Hsi
       THEN When(s.hue # p.hue, HsiCommand("Hue", s.hue)) \o
            When(s.saturation # p.saturation,
                 HsiCommand("Saturation", s.saturation)) \o
            When(s.intensity # p.intensity,
                 HsiCommand("Intensity", s.intensity)) \o
            When(s.mode # p.mode, ModeCommand(Hsi))
       ELSE When(s.temperature # p.temperature,
                 ColorTemperatureCommand(s.temperature)) \o
            When(s.intensity # p.intensity,
                 HsiCommand("Intensity", s.intensity)) \o
            When(s.mode # p.mode, ModeCommand(Cct)))

\* The intensity compared against the wrong field in the Hsi branch.
write_state_intensity_vs_hue(s, p) ==
    When(s.enabled # p.enabled, PowerCommand(s.enabled)) \o
    (IF s.mode = Hsi
       THEN When(s.hue # p.hue, HsiCommand("Hue", s.hue)) \o
            When(s.saturation # p.saturation,
                 HsiCommand("Saturation", s.saturation)) \o
            When(s.intensity # p.hue,
                 HsiCommand("Intensity", s.intensity)) \o
            When(s.mode # p.mode, ModeCommand(Hsi))
       ELSE When(s.temperature # p.temperature,
                 ColorTemperatureCommand(s.temperature)) \o
            When(s.intensity # p.intensity,
                 HsiCommand("Intensity", s.intensity)) \o
            When(s.mode # p.mode, ModeCommand(Cct)))

\* Nothing but the power command written for a disabled light.
write_state_off_suppresses(s, p) ==
    When(s.enabled # p.enabled, PowerCommand(s.enabled)) \o
    (IF ~s.enabled
       THEN <<>>
       ELSE IF s.mode = Hsi
       THEN When(s.hue # p.hue, HsiCommand("Hue", s.hue)) \o
            When(s.saturation # p.saturation,
                 HsiCommand("Saturation", s.saturation)) \o
            When(s.intensity # p.intensity,
                 HsiCommand("Intensity", s.intensity)) \o
            When(s.mode # p.mode, ModeCommand(Hsi))
       ELSE When(s.temperature # p.temperature,
                 ColorTemperatureCommand(s.temperature)) \o
            When(s.intensity # p.intensity,
                 HsiCommand("Intensity", s.intensity)) \o
            When(s.mode # p.mode, ModeCommand(Cct)))

\* Saturation written before hue.
write_state_saturation_first(s, p) ==
    When(s.enabled # p.enabled, PowerCommand(s.enabled)) \o
    (IF s.mode = Hsi
       THEN When(s.saturation # p.saturation,
                 HsiCommand("Saturation", s.saturation)) \o
            When(s.hue # p.hue, HsiCommand("Hue", s.hue)) \o
            When(s.intensity # p.intensity,
                 HsiCommand("Intensity", s.intensity)) \o
            When(s.mode # p.mode, ModeCommand(Hsi))
       ELSE When(s.temperature # p.temperature,
                 ColorTemperatureCommand(s.temperature)) \o
            When(s.intensity # p.intensity,
                 HsiCommand("Intensity", s.intensity)) \o
            When(s.mode # p.mode, ModeCommand(Cct)))

(***************************************************************************)
(* write_state_no_cmp: the commands of the unconditional full write, in    *)
(* the order of its awaits.                                                *)
(***************************************************************************)
write_state_no_cmp(s) ==
    <<PowerCommand(s.enabled)>> \o
    (IF s.mode = Hsi
       THEN <<HsiCommand("Hue", s.hue),
              HsiCommand("Saturation", s.saturation),
              HsiCommand("Intensity", s.intensity),
              ModeCommand(Hsi)>>
       ELSE <<ColorTemperatureCommand(s.temperature),
              HsiCommand("Intensity", s.intensity),
              ModeCommand(Cct)>>)

(***************************************************************************)
(* write_state: the commands written for snapshot s when the last applied  *)
(* snapshot is p, in the order of its awaits.                              *)
(***************************************************************************)
write_state(s, p) ==
    When(s.enabled # p.enabled, PowerCommand(s.enabled)) \o
    (IF s.mode = Hsi
       THEN When(s.hue # p.hue, HsiCommand("Hue", s.hue)) \o
            When(s.saturation # p.saturation,
                 HsiCommand("Saturation", s.saturation)) \o
            When(s.intensity # p.intensity,
                 HsiCommand("Intensity", s.intensity)) \o
            When(s.mode # p.mode, ModeCommand(Hsi))
       ELSE When(s.temperature # p.temperature,
                 ColorTemperatureCommand(s.temperature)) \o
            When(s.intensity # p.intensity,
                 HsiCommand("Intensity", s.intensity)) \o
            When(s.mode # p.mode, ModeCommand(Cct)))

(***************************************************************************)
(* The device: six registers, each set by the command that names it.       *)
(***************************************************************************)
DeviceRegisters ==
    [power : BOOLEAN, mode : LightMode, hue : HueVals,
     saturation : SaturationVals, intensity : IntensityVals,
     temperature : TemperatureVals]

DeviceApply(d, c) ==
    CASE c.family = "Power" -> [d EXCEPT !.power = (c.variant = "On")]
      [] c.family = "Mode" -> [d EXCEPT !.mode = c.variant]
      [] c.family = "ColorTemperature" -> [d EXCEPT !.temperature = c.value]
      [] c.family = "Hsi" /\ c.variant = "Hue" -> [d EXCEPT !.hue = c.value]
      [] c.family = "Hsi" /\ c.variant = "Saturation" ->
            [d EXCEPT !.saturation = c.value]
      [] c.family = "Hsi" /\ c.variant = "Intensity" ->
            [d EXCEPT !.intensity = c.value]

(***************************************************************************)
(* The hardware address (MacAddress) and Led::discover_mac.                *)
(***************************************************************************)
MacUnknown == [known |-> FALSE, bytes |-> <<>>]
MacKnown(b) == [known |-> TRUE, bytes |-> b]

\* Sample manufacturer-data entries: a u16 key and its bytes.
EntryA == [prefix |-> 513, suffix |-> <<3, 4, 5, 6>>]
EntryB == [prefix |-> 65450, suffix |-> <<187, 204, 221, 238>>]
EntryShort == [prefix |-> 76, suffix |-> <<1, 2>>]
EntryLong == [prefix |-> 6, suffix |-> <<1, 2, 3, 4, 5>>]

\* What peripheral.properties() can give: an error, None, or properties
\* whose manufacturer_data is iterated in the order written here.
PropertiesSamples ==
    {[status |-> "err", data |-> <<>>], [status |-> "none", data |-> <<>>]}
    \cup {[status |-> "ok", data |-> d] :
            d \in {<<>>, <<EntryShort>>, <<EntryA>>, <<EntryB>>,
                   <<EntryShort, EntryA>>, <<EntryLong, EntryB>>,
                   <<EntryA, EntryB>>, <<EntryB, EntryA>>}}

\* Faulty variant: an entry of four bytes or more is taken.
discover_mac_any_length(m, p) ==
    IF p.status # "ok"
      THEN [ok |-> FALSE, mac |-> m]
      ELSE LET four == {i \in 1 .. Len(p.data) : Len(p.data[i].suffix) >= 4}
           IN  IF four = {}
                 THEN [ok |-> TRUE, mac |-> m]
                 ELSE LET i == CHOOSE i \in four : \A j \in four : i <= j
                          e == p.data[i]
                      IN  [ok |-> TRUE,
                           mac |-> [known |-> TRUE,
                                    bytes |-> <<e.prefix % 256, e.prefix \div 256,
                                                e.suffix[1], e.suffix[2],
                                                e.suffix[3], e.suffix[4]>>]]

\* Led::discover_mac on a handle whose address is m: the address afterwards
\* and whether the call returned Ok.
discover_mac(m, p) ==
    IF p.status # "ok"
      THEN [ok |-> FALSE, mac |-> m]
      ELSE LET four == {i \in 1 .. Len(p.data) : Len(p.data[i].suffix) = 4}
           IN  IF four = {}
                 THEN [ok |-> TRUE, mac |-> m]
                 ELSE LET i == CHOOSE i \in four : \A j \in four : i <= j
                          e == p.data[i]
                      IN  [ok |-> TRUE,
                           mac |-> MacKnown(<<e.prefix % 256, e.prefix \div 256,
                                              e.suffix[1], e.suffix[2],
                                              e.suffix[3], e.suffix[4]>>)]

\* The address of a handle as scan_forever yields it: Unknown, then one
\* discover_mac whose result is dropped.
ScannedMacs == {discover_mac(MacUnknown, p).mac : p \in PropertiesSamples}

\* Faulty variant: the address is resolved on every tick.
tick_resolves_always(m) == TRUE

\* connection, health tick: `if self.mac == MacAddress::Unknown`.
tick_resolves(m) == m = MacUnknown

\* Reconnect loop: how many failed connects the model tells apart.
MaxFailures == 2

VARIABLES
    \* ---- one session (Led::connection) ----
    pc,              \* where the session task is
    previous_state,  \* last applied snapshot
    state,           \* the snapshot being written
    pending,         \* commands of the current batch not yet written
    sent,            \* commands of the current batch already written
    init_log,        \* commands written by the initial full write
    dev,             \* the device's registers
    stream_open,     \* state_stream can still yield a snapshot
    link,            \* "up" or "down": what is_connected() reports
    mac,             \* the handle's MacAddress
    in_flight,       \* peripheral.write calls issued and not yet returned
    last_connect,    \* reconnect loop: "none", "err", "slept" or "ok"
    failures,        \* reconnect loop: failed connects so far (saturating)
    last_event,      \* the select! branch taken last
    mac_changes,     \* times a tick has changed the address (up to 2)
    \* ---- the scanner (scan_forever + scan_and_spawn) ----
    scan_pc,         \* where the scanner task is
    connected,       \* the HashSet of transport ids already seen
    leds,            \* the rest of find_leds' result being iterated
    led,             \* the id of the handle just yielded (0: none)
    scan_error,      \* what the last Err item of the stream came from
    attempts,        \* per id: connect calls made by the scanner
    live,            \* per id: sessions spawned and not yet exited
    skips,           \* ids the dedup check has skipped at least once
    task,            \* per id: "none", "running", "failed" or "ended"
    named,           \* ids ever reported with the local name "BT_LED"
    passed_over,     \* some report so far was not under that name
    \* ---- the shared lights list ----
    lock,            \* who holds its mutex: "free", "scanner", "demo", "gui"
    lights,          \* how many entries it has
    demo_pc,         \* where scan_and_spawn_demo_mode is ("off": not run)
    demo_n,          \* fake devices it has pushed
    \* ---- the GUI: one light's entry, the global pane, its channel ----
    light_state,         \* light.state
    pending_send,        \* light.pending_send
    state_needs_update,  \* light.state_needs_update
    update_mode,         \* Gui::update_mode
    use_global,          \* Gui::use_global
    global_state,        \* Gui::global_state
    chan_len,            \* snapshots waiting in the light's channel
    chan_open,           \* the channel's receiver still exists
    last_sent,           \* the last snapshot try_send placed on the channel
    send_result,         \* try_send in the last render pass: "none", "ok",
                         \* "full" or "closed"
    \* ---- one device handle and its discover_mac calls ----
    probe_properties,    \* what peripheral.properties() gave at the last call
    discover_ok          \* the last call returned Ok

sessVars ==
    <<pc, previous_state, state, pending, sent, init_log, dev, stream_open,
      link, mac, in_flight, last_connect, failures, last_event,
      mac_changes>>

scanVars ==
    <<scan_pc, connected, leds, led, scan_error, attempts, live, skips,
      task, named, passed_over, lock, lights, demo_pc, demo_n>>

guiVars ==
    <<light_state, pending_send, state_needs_update, update_mode, use_global,
      global_state, chan_len, chan_open, last_sent, send_result>>

probeVars == <<probe_properties, discover_ok>>

vars == <<sessVars, scanVars, guiVars, probeVars>>

\* What a session step leaves alone, and what a scanner step leaves alone.
notSess == <<scanVars, guiVars, probeVars>>
notScan == <<sessVars, guiVars, probeVars>>
notGui == <<sessVars, scanVars, probeVars>>
notProbe == <<sessVars, scanVars, guiVars>>


(***************************************************************************)
(* The session: Led::connection.                                           *)
(***************************************************************************)
SessionPcs ==
    {"init_write", "subscribe", "select", "writing", "health", "reconnect",
     "sleep", "check", "done", "failed"}

\* Led::connection up to its first await: previous_state is the default
\* snapshot and write_state_no_cmp is about to write it.  devs: what the
\* device's registers may hold before the session; macs: what the scanner's
\* discover_mac left in the handle.
InitSession(devs, macs) ==
    /\ pc = "init_write"
    /\ previous_state = Default
    /\ state = Default
    /\ pending = write_state_no_cmp(Default)
    /\ sent = <<>>
    /\ init_log = <<>>
    /\ dev \in devs
    /\ stream_open = TRUE
    /\ link = "up"
    /\ mac \in macs
    /\ in_flight = 0
    /\ last_connect = "none"
    /\ failures = 0
    /\ last_event = "none"
    /\ mac_changes = 0

\* Faulty variant: a write is issued while another has not returned.
write_overlapping(n) == n <= 1

\* Led::cmd: `peripheral.write(..).await?` returns before the caller goes on,
\* so a write is issued only when none is outstanding.
write_awaited(n) == n = 0

\* Led::cmd, the write of the next command of the batch is issued.
cmd_write ==
    /\ pc \in {"init_write", "writing"}
    /\ pending # <<>>
    /\ write_awaited(in_flight)
    /\ in_flight' = in_flight + 1
    /\ UNCHANGED <<pc, previous_state, state, pending, sent, init_log, dev,
                   stream_open, link, mac, last_connect, failures, last_event>>
    /\ UNCHANGED mac_changes
    /\ UNCHANGED notSess

\* Led::cmd, the write succeeds: the device takes the command.
cmd_ok ==
    /\ pc \in {"init_write", "writing"}
    /\ pending # <<>>
    /\ link = "up"
    /\ dev' = DeviceApply(dev, Head(pending))
    /\ sent' = Append(sent, Head(pending))
    /\ pending' = Tail(pending)
    /\ UNCHANGED <<pc, previous_state, state, init_log, stream_open, link, mac>>
    /\ in_flight >= 1
    /\ in_flight' = in_flight - 1
    /\ UNCHANGED <<last_connect, failures, last_event>>
    /\ UNCHANGED mac_changes
    /\ UNCHANGED notSess

\* Led::cmd, the write fails: `?` ends write_state and then connection.
cmd_err ==
    /\ pc \in {"init_write", "writing"}
    /\ pending # <<>>
    /\ pc' = "failed"
    /\ UNCHANGED <<previous_state, state, pending, sent, init_log, dev,
                   stream_open, link, mac>>
    /\ in_flight >= 1
    /\ in_flight' = in_flight - 1
    /\ UNCHANGED <<last_connect, failures, last_event>>
    /\ UNCHANGED mac_changes
    /\ UNCHANGED notSess

\* write_state_no_cmp returned Ok: on to subscribe.
connection_init_done ==
    /\ pc = "init_write"
    /\ pending = <<>>
    /\ init_log' = sent
    /\ sent' = <<>>
    /\ pc' = "subscribe"
    /\ UNCHANGED <<previous_state, state, pending, dev, stream_open, link, mac>>
    /\ UNCHANGED <<in_flight, last_connect, failures, last_event>>
    /\ UNCHANGED mac_changes
    /\ UNCHANGED notSess

\* peripheral.subscribe() and peripheral.notifications() both succeed.
connection_subscribe_ok ==
    /\ pc = "subscribe"
    /\ pc' = "select"
    /\ UNCHANGED <<previous_state, state, pending, sent, init_log, dev,
                   stream_open, link, mac>>
    /\ UNCHANGED <<in_flight, last_connect, failures, last_event>>
    /\ UNCHANGED mac_changes
    /\ UNCHANGED notSess

\* One of them fails: `?` ends connection.
connection_subscribe_err ==
    /\ pc = "subscribe"
    /\ pc' = "failed"
    /\ UNCHANGED <<previous_state, state, pending, sent, init_log, dev,
                   stream_open, link, mac>>
    /\ UNCHANGED <<in_flight, last_connect, failures, last_event>>
    /\ UNCHANGED mac_changes
    /\ UNCHANGED notSess

\* Faulty variant: the snapshot becomes last-applied before it is written.
connection_recv_eager(s) ==
    /\ pc = "select"
    /\ stream_open
    /\ state' = s
    /\ pending' = write_state(s, previous_state)
    /\ previous_state' = s
    /\ sent' = <<>>
    /\ pc' = "writing"
    /\ last_event' = "state"
    /\ UNCHANGED <<init_log, dev, stream_open, link, mac, in_flight,
                   last_connect, failures, mac_changes>>
    /\ UNCHANGED notSess

\* select!, first branch, Some(s): write_state(&self, &state, &previous_state)
\* starts.
connection_recv(s) ==
    /\ pc = "select"
    /\ stream_open
    /\ state' = s
    /\ pending' = write_state(s, previous_state)
    /\ sent' = <<>>
    /\ pc' = "writing"
    /\ UNCHANGED <<previous_state, init_log, dev, stream_open, link, mac>>
    /\ last_event' = "state"
    /\ UNCHANGED <<in_flight, last_connect, failures>>
    /\ UNCHANGED mac_changes
    /\ UNCHANGED notSess

\* write_state returned Ok: previous_state = state.
connection_applied ==
    /\ pc = "writing"
    /\ pending = <<>>
    /\ previous_state' = state
    /\ sent' = <<>>
    /\ pc' = "select"
    /\ UNCHANGED <<state, pending, init_log, dev, stream_open, link, mac>>
    /\ UNCHANGED <<in_flight, last_connect, failures, last_event>>
    /\ UNCHANGED mac_changes
    /\ UNCHANGED notSess

\* Faulty variant: `continue` where the code has `break`.
stream_none_continue == "select"

\* What the first branch does on None: break, after which connection
\* returns Ok.
stream_none == "done"

\* select!, first branch, None: break, and connection returns Ok.
connection_stream_end ==
    /\ pc = "select"
    /\ ~stream_open
    /\ pc' = stream_none
    /\ UNCHANGED <<previous_state, state, pending, sent, init_log, dev,
                   stream_open, link, mac>>
    /\ UNCHANGED <<in_flight, last_connect, failures, last_event>>
    /\ UNCHANGED mac_changes
    /\ UNCHANGED notSess

\* select!, third branch: the notification is traced, nothing else.
connection_notification ==
    /\ pc = "select"
    /\ last_event' = "notification"
    /\ UNCHANGED <<pc, previous_state, state, pending, sent, init_log, dev,
                   stream_open, link, mac, in_flight, last_connect, failures>>
    /\ UNCHANGED mac_changes
    /\ UNCHANGED notSess

\* select!, second branch up to health_check: discover_mac runs only while
\* the address is Unknown, and its result is dropped.  p: what
\* peripheral.properties() gives this time.
connection_tick ==
    /\ pc = "select"
    /\ \E p \in PropertiesSamples :
          mac' = IF tick_resolves(mac) THEN discover_mac(mac, p).mac ELSE mac
    /\ pc' = "health"
    /\ UNCHANGED <<previous_state, state, pending, sent, init_log, dev,
                   stream_open, link>>
    /\ last_event' = "tick"
    /\ UNCHANGED <<in_flight, last_connect, failures>>
    /\ mac_changes' = IF mac' # mac /\ mac_changes < 2
                       THEN mac_changes + 1 ELSE mac_changes
    /\ UNCHANGED notSess

\* health_check: is_connected() is Ok(true), or an Err: nothing to do.
health_check_ok ==
    /\ pc = "health"
    /\ \/ link = "up"              \* Ok(true)
       \/ link \in {"up", "down"}   \* Err(_)
    /\ pc' = "select"
    /\ UNCHANGED <<previous_state, state, pending, sent, init_log, dev,
                   stream_open, link, mac>>
    /\ UNCHANGED <<in_flight, last_connect, failures, last_event>>
    /\ UNCHANGED mac_changes
    /\ UNCHANGED notSess

\* health_check: is_connected() is Ok(false): the reconnect loop starts.
health_check_lost ==
    /\ pc = "health"
    /\ link = "down"
    /\ pc' = "reconnect"
    /\ UNCHANGED <<previous_state, state, pending, sent, init_log, dev,
                   stream_open, link, mac>>
    /\ last_connect' = "none"
    /\ failures' = 0
    /\ UNCHANGED <<in_flight, last_event>>
    /\ UNCHANGED mac_changes
    /\ UNCHANGED notSess

\* Reconnect loop: peripheral.connect() fails, sleep 5 s comes next.
reconnect_connect_err ==
    /\ pc = "reconnect"
    /\ pc' = "sleep"
    /\ UNCHANGED <<previous_state, state, pending, sent, init_log, dev,
                   stream_open, link, mac>>
    /\ last_connect' = "err"
    /\ failures' = IF failures < MaxFailures THEN failures + 1 ELSE failures
    /\ UNCHANGED <<in_flight, last_event>>
    /\ UNCHANGED mac_changes
    /\ UNCHANGED notSess

\* Reconnect loop: peripheral.connect() succeeds.
reconnect_connect_ok ==
    /\ pc = "reconnect"
    /\ link' = "up"
    /\ pc' = "check"
    /\ UNCHANGED <<previous_state, state, pending, sent, init_log, dev,
                   stream_open, mac>>
    /\ last_connect' = "ok"
    /\ UNCHANGED <<in_flight, failures, last_event>>
    /\ UNCHANGED mac_changes
    /\ UNCHANGED notSess

\* Faulty variant: the sleep races with the notification stream.
reconnect_sleep_selecting ==
    /\ pc = "sleep"
    /\ \/ pc' = "reconnect" /\ last_connect' = "slept" /\ last_event' = last_event
       \/ pc' = pc /\ last_connect' = last_connect /\ last_event' = "notification"
    /\ UNCHANGED <<previous_state, state, pending, sent, init_log, dev,
                   stream_open, link, mac, in_flight, failures>>
    /\ UNCHANGED mac_changes
    /\ UNCHANGED notSess

\* Faulty variant: after a reconnect the last-applied snapshot is written
\* again in full.
reconnect_check_resending ==
    /\ pc = "check"
    /\ \/ /\ link = "up"
          /\ pending' = write_state_no_cmp(previous_state)
          /\ pc' = "writing"
       \/ pc' = "reconnect" /\ pending' = pending
    /\ UNCHANGED <<previous_state, state, sent, init_log, dev, stream_open,
                   link, mac>>
    /\ UNCHANGED <<in_flight, last_connect, failures, last_event>>
    /\ UNCHANGED mac_changes
    /\ UNCHANGED notSess

\* Faulty variant: the loop breaks after a connect without asking
\* is_connected().
reconnect_check_blind ==
    /\ pc = "check"
    /\ pc' = "select"
    /\ UNCHANGED <<previous_state, state, pending, sent, init_log, dev,
                   stream_open, link, mac>>
    /\ UNCHANGED <<in_flight, last_connect, failures, last_event>>
    /\ UNCHANGED mac_changes
    /\ UNCHANGED notSess

\* Reconnect loop: the 5 s sleep is over, `continue`.
reconnect_sleep ==
    /\ pc = "sleep"
    /\ pc' = "reconnect"
    /\ UNCHANGED <<previous_state, state, pending, sent, init_log, dev,
                   stream_open, link, mac>>
    /\ last_connect' = "slept"
    /\ UNCHANGED <<in_flight, failures, last_event>>
    /\ UNCHANGED mac_changes
    /\ UNCHANGED notSess

\* Reconnect loop: is_connected() after the connect: Ok(true) breaks,
\* anything else loops straight back to connect().
reconnect_check ==
    /\ pc = "check"
    /\ \/ link = "up" /\ pc' = "select"
       \/ pc' = "reconnect"
    /\ UNCHANGED <<previous_state, state, pending, sent, init_log, dev,
                   stream_open, link, mac>>
    /\ UNCHANGED <<in_flight, last_connect, failures, last_event>>
    /\ UNCHANGED mac_changes
    /\ UNCHANGED notSess

\* Environment: the device drops off the air.
link_drop ==
    /\ link = "up"
    /\ link' = "down"
    /\ UNCHANGED <<pc, previous_state, state, pending, sent, init_log, dev,
                   stream_open, mac>>
    /\ UNCHANGED <<in_flight, last_connect, failures, last_event>>
    /\ UNCHANGED mac_changes
    /\ UNCHANGED notSess

\* Environment: the sender of the settings channel is dropped and the
\* stream has nothing left to yield.
stream_close ==
    /\ stream_open
    /\ stream_open' = FALSE
    /\ UNCHANGED <<pc, previous_state, state, pending, sent, init_log, dev,
                   link, mac>>
    /\ UNCHANGED <<in_flight, last_connect, failures, last_event>>
    /\ UNCHANGED mac_changes
    /\ UNCHANGED notSess

(***************************************************************************)
(* The scanner: the stream of scan_forever as scan_and_spawn consumes it.  *)
(***************************************************************************)
NumPeripherals == 2
MaxVisible == 2

PeripheralIds == 1 .. NumPeripherals

\* What p.properties() gives for a peripheral: its local name is "BT_LED",
\* the name of another product, no name, no properties at all, or the read
\* fails.
PropertyKinds == {"BT_LED", "BT_LED2", "no_name", "no_properties", "err"}

\* Faulty variant: any name that starts with "BT_LED" passes.
is_led_prefix(properties) == properties \in {"BT_LED", "BT_LED2"}

\* find_leds: properties with a local_name that is == "BT_LED".
is_led(properties) == properties = "BT_LED"

\* What central.peripherals() can return in one poll round.
Visible ==
    UNION {[1 .. n -> [id : PeripheralIds, properties : PropertyKinds]] :
             n \in 0 .. MaxVisible}

\* find_leds: the ids of the peripherals named "BT_LED", in order; the first
\* failing properties() read fails the whole call.
RECURSIVE find_leds(_)
find_leds(ps) ==
    IF ps = <<>>
      THEN [ok |-> TRUE, peripherals |-> <<>>]
      ELSE LET p == Head(ps)
               rest == find_leds(Tail(ps))
           IN  IF p.properties = "err" \/ ~rest.ok
                 THEN [ok |-> FALSE, peripherals |-> <<>>]
                 ELSE IF is_led(p.properties)
                        THEN [ok |-> TRUE,
                              peripherals |-> <<p.id>> \o rest.peripherals]
                        ELSE rest

\* Faulty variant: the result of the insert is not looked at.
insert_ignored(id, set) == TRUE

\* connected.insert(peripheral.id()): TRUE when the id was not in the set.
insert_is_new(id, set) == id \notin set

\* scan_and_spawn_demo_mode pushes fake_device(1), (2) and (3).
DemoDevices == 3

InitShared(spc, dpc) ==
    /\ scan_pc = spc
    /\ demo_pc = dpc
    /\ demo_n = 0
    /\ lock = "free"
    /\ lights = 0
    /\ task = [i \in PeripheralIds |-> "none"]
    /\ named = {}
    /\ passed_over = FALSE
    /\ connected = {}
    /\ leds = <<>>
    /\ led = 0
    /\ scan_error = "none"
    /\ attempts = [i \in PeripheralIds |-> 0]
    /\ live = [i \in PeripheralIds |-> 0]
    /\ skips = {}

\* main without --demo: scan_and_spawn runs, the demo producer does not.
InitScan == InitShared("setup", "off")

\* main with --demo: only scan_and_spawn_demo_mode runs.
InitDemo == InitShared("demo", "lock")

\* Manager::new, adapters, start_scan all succeed.
scan_setup_ok ==
    /\ scan_pc = "setup"
    /\ scan_pc' = "find"
    /\ UNCHANGED <<connected, leds, led, scan_error, attempts, live, skips>>
    /\ UNCHANGED <<task, named, passed_over, lock, lights, demo_pc, demo_n>>
    /\ UNCHANGED notScan

\* One of them fails: `?` yields the Err and the stream is over.
scan_setup_err ==
    /\ scan_pc = "setup"
    /\ scan_error' = "setup"
    /\ scan_pc' = "errored"
    /\ UNCHANGED <<connected, leds, led, attempts, live, skips>>
    /\ UNCHANGED <<task, named, passed_over, lock, lights, demo_pc, demo_n>>
    /\ UNCHANGED notScan

\* There is no adapter: nth(0).unwrap() panics.
scan_setup_panic ==
    /\ scan_pc = "setup"
    /\ scan_pc' = "panicked"
    /\ UNCHANGED <<connected, leds, led, scan_error, attempts, live, skips>>
    /\ UNCHANGED <<task, named, passed_over, lock, lights, demo_pc, demo_n>>
    /\ UNCHANGED notScan

\* The places of vis whose peripheral advertises (led_name) or does not
\* advertise the local name "BT_LED".
Reported(vis, led_name) ==
    {i \in DOMAIN vis : (vis[i].properties = "BT_LED") = led_name}

\* find_leds(&central).await?
scan_find(vis) ==
    /\ scan_pc = "find"
    /\ LET r == find_leds(vis)
       IN  IF r.ok
             THEN /\ leds' = r.peripherals
                  /\ scan_pc' = "iter"
                  /\ UNCHANGED scan_error
             ELSE /\ scan_error' = "properties"
                  /\ scan_pc' = "errored"
                  /\ UNCHANGED leds
    /\ UNCHANGED <<connected, led, attempts, live, skips>>
    /\ named' = named \cup {vis[i].id : i \in Reported(vis, TRUE)}
    /\ passed_over' = (passed_over \/ Reported(vis, FALSE) # {})
    /\ UNCHANGED <<task, lock, lights, demo_pc, demo_n>>
    /\ UNCHANGED notScan

\* central.peripherals() itself fails inside find_leds.
scan_find_err ==
    /\ scan_pc = "find"
    /\ scan_error' = "peripherals"
    /\ scan_pc' = "errored"
    /\ UNCHANGED <<connected, leds, led, attempts, live, skips>>
    /\ UNCHANGED <<task, named, passed_over, lock, lights, demo_pc, demo_n>>
    /\ UNCHANGED notScan

\* for peripheral in leds: the id is already in `connected`: continue.
scan_skip ==
    /\ scan_pc = "iter"
    /\ leds # <<>>
    /\ ~insert_is_new(Head(leds), connected)
    /\ skips' = skips \cup {Head(leds)}
    /\ leds' = Tail(leds)
    /\ UNCHANGED <<scan_pc, connected, led, scan_error, attempts, live>>
    /\ UNCHANGED <<task, named, passed_over, lock, lights, demo_pc, demo_n>>
    /\ UNCHANGED notScan

\* A new id: it is inserted, then connect, find_characteristic,
\* discover_mac (result dropped) and the yield.  outcome: which await fails.
scan_connect(outcome) ==
    /\ scan_pc = "iter"
    /\ leds # <<>>
    /\ insert_is_new(Head(leds), connected)
    /\ connected' = connected \cup {Head(leds)}
    /\ attempts' = [attempts EXCEPT ![Head(leds)] = @ + 1]
    /\ IF outcome = "ok"
         THEN /\ led' = Head(leds)
              /\ scan_pc' = "yielded"
              /\ UNCHANGED scan_error
         ELSE /\ scan_error' = outcome
              /\ scan_pc' = "errored"
              /\ UNCHANGED led
    /\ leds' = Tail(leds)
    /\ UNCHANGED <<live, skips>>
    /\ UNCHANGED <<task, named, passed_over, lock, lights, demo_pc, demo_n>>
    /\ UNCHANGED notScan

ConnectOutcomes == {"ok", "connect", "characteristic"}

\* Faulty variant: the guard of the lock is kept past the push.
scan_push_holding ==
    /\ scan_pc = "pushing"
    /\ lights' = lights + 1
    /\ scan_pc' = "spawning"
    /\ UNCHANGED <<connected, leds, led, scan_error, attempts, live, skips>>
    /\ UNCHANGED <<task, named, passed_over, lock, demo_pc, demo_n>>
    /\ UNCHANGED notScan

\* scan_and_spawn, Ok(led): lights.lock() is acquired for the push.
scan_push_lock ==
    /\ scan_pc = "yielded"
    /\ lock = "free"
    /\ lock' = "scanner"
    /\ scan_pc' = "pushing"
    /\ UNCHANGED <<connected, leds, led, scan_error, attempts, live, skips>>
    /\ UNCHANGED <<task, named, passed_over, lights, demo_pc, demo_n>>
    /\ UNCHANGED notScan

\* The GUI entry is pushed and the guard dropped at the end of the block.
scan_push ==
    /\ scan_pc = "pushing"
    /\ lights' = lights + 1
    /\ lock' = "free"
    /\ scan_pc' = "spawning"
    /\ UNCHANGED <<connected, leds, led, scan_error, attempts, live, skips>>
    /\ UNCHANGED <<task, named, passed_over, demo_pc, demo_n>>
    /\ UNCHANGED notScan

\* tokio::spawn(led.connection(rx)); the loop then polls the stream again.
scan_spawn ==
    /\ scan_pc = "spawning"
    /\ live' = [live EXCEPT ![led] = @ + 1]
    /\ task' = [task EXCEPT ![led] = "running"]
    /\ led' = 0
    /\ scan_pc' = "iter"
    /\ UNCHANGED <<connected, leds, scan_error, attempts, skips>>
    /\ UNCHANGED <<named, passed_over, lock, lights, demo_pc, demo_n>>
    /\ UNCHANGED notScan

\* The for loop is over: sleep 500 ms.
scan_iter_done ==
    /\ scan_pc = "iter"
    /\ leds = <<>>
    /\ scan_pc' = "sleep"
    /\ UNCHANGED <<connected, leds, led, scan_error, attempts, live, skips>>
    /\ UNCHANGED <<task, named, passed_over, lock, lights, demo_pc, demo_n>>
    /\ UNCHANGED notScan

\* The sleep is over: next round of the loop.
scan_sleep ==
    /\ scan_pc = "sleep"
    /\ scan_pc' = "find"
    /\ UNCHANGED <<connected, leds, led, scan_error, attempts, live, skips>>
    /\ UNCHANGED <<task, named, passed_over, lock, lights, demo_pc, demo_n>>
    /\ UNCHANGED notScan

\* scan_and_spawn, Err(e): logged, continue; the generator returned after
\* yielding the Err, so the next poll gives None and the while loop ends
\* ("Scanning stream hung up").
scan_hangup ==
    /\ scan_pc = "errored"
    /\ scan_pc' = "hungup"
    /\ UNCHANGED <<connected, leds, led, scan_error, attempts, live, skips>>
    /\ UNCHANGED <<task, named, passed_over, lock, lights, demo_pc, demo_n>>
    /\ UNCHANGED notScan

\* A spawned session reads None from its stream: its task returns Ok(()).
session_exit(id) ==
    /\ task[id] = "running"
    /\ live[id] > 0
    /\ live' = [live EXCEPT ![id] = @ - 1]
    /\ task' = [task EXCEPT ![id] = "ended"]
    /\ UNCHANGED <<scan_pc, connected, leds, led, scan_error, attempts, skips>>
    /\ UNCHANGED <<named, passed_over, lock, lights, demo_pc, demo_n>>
    /\ UNCHANGED notScan

\* Faulty variant: a session whose write failed goes on writing.
session_write_ok_after_failure(id) ==
    /\ task[id] \in {"running", "failed"}
    /\ UNCHANGED <<scan_pc, connected, leds, led, scan_error, attempts, skips>>
    /\ UNCHANGED <<live, task, named, passed_over, lock, lights, demo_pc, demo_n>>
    /\ UNCHANGED notScan

\* Faulty variant: the failed device is put back among the unseen ones.
session_write_err_forgetting(id) ==
    /\ task[id] = "running"
    /\ live[id] > 0
    /\ task' = [task EXCEPT ![id] = "failed"]
    /\ live' = [live EXCEPT ![id] = @ - 1]
    /\ connected' = connected \ {id}
    /\ UNCHANGED <<scan_pc, leds, led, scan_error, attempts, skips>>
    /\ UNCHANGED <<named, passed_over, lock, lights, demo_pc, demo_n>>
    /\ UNCHANGED notScan

\* A spawned session takes a snapshot from its stream.
session_recv(id) ==
    /\ task[id] = "running"
    /\ UNCHANGED <<scan_pc, connected, leds, led, scan_error, attempts, skips>>
    /\ UNCHANGED <<live, task, named, passed_over, lock, lights, demo_pc, demo_n>>
    /\ UNCHANGED notScan

\* A spawned session writes a frame (Led::cmd returns Ok).
session_write_ok(id) ==
    /\ task[id] = "running"
    /\ UNCHANGED <<scan_pc, connected, leds, led, scan_error, attempts, skips>>
    /\ UNCHANGED <<live, task, named, passed_over, lock, lights, demo_pc, demo_n>>
    /\ UNCHANGED notScan

\* A write of a spawned session fails: `?` in cmd, write_state and
\* connection returns the Err from the task.
session_write_err(id) ==
    /\ task[id] = "running"
    /\ live[id] > 0
    /\ task' = [task EXCEPT ![id] = "failed"]
    /\ live' = [live EXCEPT ![id] = @ - 1]
    /\ UNCHANGED <<scan_pc, connected, leds, led, scan_error, attempts, skips>>
    /\ UNCHANGED <<named, passed_over, lock, lights, demo_pc, demo_n>>
    /\ UNCHANGED notScan

\* scan_and_spawn_demo_mode: lights.lock() for the next fake device.
demo_lock ==
    /\ demo_pc = "lock"
    /\ lock = "free"
    /\ lock' = "demo"
    /\ demo_pc' = "push"
    /\ UNCHANGED <<scan_pc, connected, leds, led, scan_error, attempts, skips>>
    /\ UNCHANGED <<live, task, named, passed_over, lights, demo_n>>
    /\ UNCHANGED notScan

\* The push; the guard is a temporary dropped at the end of the statement.
demo_push ==
    /\ demo_pc = "push"
    /\ lights' = lights + 1
    /\ demo_n' = demo_n + 1
    /\ lock' = "free"
    /\ demo_pc' = IF demo_n' = DemoDevices THEN "done" ELSE "sleep"
    /\ UNCHANGED <<scan_pc, connected, leds, led, scan_error, attempts, skips>>
    /\ UNCHANGED <<live, task, named, passed_over>>
    /\ UNCHANGED notScan

\* sleep(5 s) after the first push, sleep(10 s) after the second.
demo_sleep ==
    /\ demo_pc = "sleep"
    /\ demo_pc' = "lock"
    /\ UNCHANGED <<scan_pc, connected, leds, led, scan_error, attempts, skips>>
    /\ UNCHANGED <<live, task, named, passed_over, lock, lights, demo_n>>
    /\ UNCHANGED notScan

\* The GUI thread: self.lights.lock().unwrap() at the head of a for loop
\* or of is_empty().
gui_lock ==
    /\ lock = "free"
    /\ lock' = "gui"
    /\ UNCHANGED <<scan_pc, connected, leds, led, scan_error, attempts, skips>>
    /\ UNCHANGED <<live, task, named, passed_over, lights, demo_pc, demo_n>>
    /\ UNCHANGED notScan

\* The loop or the call is over: the guard is dropped.
gui_unlock ==
    /\ lock = "gui"
    /\ lock' = "free"
    /\ UNCHANGED <<scan_pc, connected, leds, led, scan_error, attempts, skips>>
    /\ UNCHANGED <<live, task, named, passed_over, lights, demo_pc, demo_n>>
    /\ UNCHANGED notScan

(***************************************************************************)
(* One device handle and the discover_mac calls made on it: by scan_forever *)
(* when the handle is created and by the session's tick while the address  *)
(* is Unknown.                                                             *)
(***************************************************************************)
MaxEntries == 3

EntryC == [prefix |-> 256, suffix |-> <<9, 8, 7, 6>>]
EntryEmpty == [prefix |-> 7, suffix |-> <<>>]
Entries == {EntryA, EntryB, EntryC, EntryShort, EntryLong, EntryEmpty}

\* manufacturer_data is a map: its keys are distinct; it is iterated in any
\* order.
ManufacturerData ==
    {d \in UNION {[1 .. n -> Entries] : n \in 0 .. MaxEntries} :
       \A i, j \in DOMAIN d : i # j => d[i].prefix # d[j].prefix}

PropertiesInputs ==
    {[status |-> "err", data |-> <<>>], [status |-> "none", data |-> <<>>]}
    \cup {[status |-> "ok", data |-> d] : d \in ManufacturerData}

Unread == [status |-> "unread", data |-> <<>>]

InitProbe ==
    /\ probe_properties = Unread
    /\ discover_ok = TRUE

discover_mac_call(p) ==
    /\ mac = MacUnknown
    /\ LET r == discover_mac(mac, p)
       IN  /\ mac' = r.mac
           /\ discover_ok' = r.ok
    /\ probe_properties' = p
    /\ UNCHANGED <<pc, previous_state, state, pending, sent, init_log, dev,
                   stream_open, link, in_flight, last_connect, failures,
                   last_event, mac_changes>>
    /\ UNCHANGED <<scanVars, guiVars>>

(***************************************************************************)
(* The single-file variant (main.rs): connection and write_state there.    *)
(***************************************************************************)
\* main.rs, impl Default for LightSettingsState
DefaultMain ==
    [enabled |-> TRUE, hue |-> 0, intensity |-> 50, saturation |-> 100,
     temperature |-> 0, mode |-> Cct]

\* main.rs write_state: the commands written for snapshot s when the last
\* applied snapshot is p.
write_state_main(s, p) ==
    IF s.mode = Hsi
      THEN When(s.hue # p.hue, HsiCommand("Hue", s.hue)) \o
           When(s.saturation # p.saturation,
                HsiCommand("Saturation", s.saturation)) \o
           When(s.intensity # p.intensity,
                HsiCommand("Intensity", s.intensity)) \o
           When(s.mode # p.mode, ModeCommand(Hsi))
      ELSE When(s.temperature # p.temperature,
                ColorTemperatureCommand(s.temperature)) \o
           When(s.intensity # p.intensity,
                HsiCommand("Intensity", s.intensity)) \o
           When(s.mode # p.mode, ModeCommand(Cct))

\* main.rs connection starts in its while loop: no initial write, no
\* subscription.
InitMain ==
    /\ pc = "select"
    /\ previous_state = DefaultMain
    /\ state = DefaultMain
    /\ pending = <<>>
    /\ sent = <<>>
    /\ init_log = <<>>
    /\ dev = [power |-> TRUE, mode |-> Cct, hue |-> 0, saturation |-> 100,
              intensity |-> 50, temperature |-> 0]
    /\ stream_open = TRUE
    /\ link = "up"
    /\ mac = MacUnknown
    /\ in_flight = 0
    /\ last_connect = "none"
    /\ failures = 0
    /\ last_event = "none"
    /\ mac_changes = 0

\* main.rs connection, Some(state): write_state(&led, &state, &previous_state)
\* starts.
main_connection_recv(s) ==
    /\ pc = "select"
    /\ stream_open
    /\ state' = s
    /\ pending' = write_state_main(s, previous_state)
    /\ sent' = <<>>
    /\ pc' = "writing"
    /\ last_event' = "state"
    /\ UNCHANGED <<previous_state, init_log, dev, stream_open, link, mac,
                   in_flight, last_connect, failures, mac_changes>>
    /\ UNCHANGED notSess

(***************************************************************************)
(* The GUI (gui.rs): one light's entry of the lights list, the global      *)
(* pane, and the bounded channel from the entry to the light's session.    *)
(* A render pass (Gui::update) is one step; the user acts on at most one   *)
(* widget per pass.                                                        *)
(***************************************************************************)
Immediate == "Immediate"
Commit == "Commit"
UpdateMode == {Immediate, Commit}

\* scan_and_spawn: `mpsc::channel(10)`.
ChannelCapacity == 10

\* What the user does in one pass: the pane and widget acted on, the value
\* of a radio button, the position a slider is dragged to (tenths of a unit
\* for the u8 sliders, Kelvin for the colour temperature slider).
Edit(pane, kind, mode, pos) ==
    [pane |-> pane, kind |-> kind, mode |-> mode, pos |-> pos]

NoEdit == Edit("none", "idle", "", 0)

\* The part of an edit that falls on the given pane.
EditOn(pane, e) == IF e.pane = pane THEN e ELSE NoEdit

\* slider_u8: the u8 shown as f32, and the slider's f32 cast back with
\* `as u8`, which truncates.
slider_u8(value, moved, pos) == IF moved THEN pos \div 10 ELSE value

\* draw_light_settings, Cct arm: floor(temperature * 100) is shown, and the
\* slider's Kelvin value divided by 100 is rounded to the nearest integer.
temperature_slider(temperature, moved, pos) ==
    LET temperature_f32 == IF moved THEN pos ELSE temperature * 100
    IN  (temperature_f32 + 50) \div 100

\* draw_light_settings: the mode radio buttons, then the sliders of the
\* mode selected.
draw_light_settings(s, e) ==
    LET m == IF e.kind = "mode" THEN e.mode ELSE s.mode
    IN  IF m = Cct
          THEN [s EXCEPT
                  !.mode = m,
                  !.temperature =
                      temperature_slider(@, e.kind = "temperature", e.pos),
                  !.intensity = slider_u8(@, e.kind = "intensity", e.pos)]
          ELSE [s EXCEPT
                  !.mode = m,
                  !.hue = slider_u8(@, e.kind = "hue", e.pos),
                  !.saturation = slider_u8(@, e.kind = "saturation", e.pos),
                  !.intensity = slider_u8(@, e.kind = "intensity", e.pos)]

\* The enable toggle of a pane, then its settings when it is enabled.
draw_pane(s, e) ==
    LET t == IF e.kind = "toggle" THEN [s EXCEPT !.enabled = ~@] ELSE s
    IN  IF t.enabled THEN draw_light_settings(t, e) ELSE t

\* Sender::try_send: Ok while the receiver exists and a slot is free.
try_send(len, open) ==
    IF ~open THEN "closed" ELSE IF len < ChannelCapacity THEN "ok" ELSE "full"

\* Faulty variant: a failed try_send is forgotten.
pending_after_try_send_forgetting(result) == FALSE

\* draw_light_group: `light.pending_send = light.tx.try_send(..).is_err()`.
pending_after_try_send(result) == result # "ok"

\* LightGuiState::new, Gui::new, and an empty open channel.
InitGui ==
    /\ light_state = Default
    /\ pending_send = FALSE
    /\ state_needs_update = FALSE
    /\ update_mode = Immediate
    /\ use_global = FALSE
    /\ global_state = Default
    /\ chan_len = 0
    /\ chan_open = TRUE
    /\ last_sent = Default
    /\ send_result = "none"

\* Gui::update with the list not empty: draw_settings, draw_light_group for
\* the light, then draw_global_pane when the pane is in use.
gui_update(e) ==
    LET \* draw_settings
        mode1 == IF e.pane = "settings" /\ e.kind = "update_mode"
                   THEN e.mode ELSE update_mode
        global1 == IF e.pane = "settings" /\ e.kind = "use_global"
                     THEN ~use_global ELSE use_global
        commit_all == e.pane = "settings" /\ e.kind = "commit_all"
                        /\ mode1 = Commit
        \* draw_light_group
        previous == light_state
        commit_one == e.pane = "light" /\ e.kind = "commit"
                        /\ mode1 = Commit /\ state_needs_update
        pending1 == pending_send \/ commit_all \/ commit_one
        state1 == draw_pane(light_state, EditOn("light", e))
        needs1 == state_needs_update \/ state1 # previous
        sends == pending1 \/ (mode1 = Immediate /\ needs1)
        result == IF sends THEN try_send(chan_len, chan_open) ELSE "none"
        pending2 == IF sends THEN pending_after_try_send(result) ELSE pending1
        needs2 == IF sends THEN FALSE ELSE needs1
        \* draw_global_pane
        global2 == IF global1
                     THEN draw_pane(global_state, EditOn("global", e))
                     ELSE global_state
        changed == global2 # global_state
    IN  /\ update_mode' = mode1
        /\ use_global' = global1
        /\ global_state' = global2
        /\ light_state' = IF changed THEN global2 ELSE state1
        /\ pending_send' = IF changed /\ mode1 = Immediate
                             THEN TRUE ELSE pending2
        /\ state_needs_update' = IF changed /\ mode1 # Immediate
                                   THEN TRUE ELSE needs2
        /\ chan_len' = IF result = "ok" THEN chan_len + 1 ELSE chan_len
        /\ last_sent' = IF result = "ok" THEN state1 ELSE last_sent
        /\ send_result' = result
        /\ chan_open' = chan_open
        /\ UNCHANGED notGui

\* The session takes a snapshot from the channel (the debounced stream of
\* scan_and_spawn polled by connection).
chan_take ==
    /\ chan_open
    /\ chan_len > 0
    /\ chan_len' = chan_len - 1
    /\ UNCHANGED <<light_state, pending_send, state_needs_update, update_mode,
                   use_global, global_state, chan_open, last_sent,
                   send_result>>
    /\ UNCHANGED notGui

\* The session ends and drops the receiver.
chan_close ==
    /\ chan_open
    /\ chan_open' = FALSE
    /\ UNCHANGED <<light_state, pending_send, state_needs_update, update_mode,
                   use_global, global_state, chan_len, last_sent,
                   send_result>>
    /\ UNCHANGED notGui

(***************************************************************************)
(* Specifications.                                                         *)
(***************************************************************************)

\* The GUI and the handle under discover_mac at rest.
InitRest == InitGui /\ InitProbe

\* The dispatcher: one session on a healthy link, fed every snapshot.
Init == InitSession(DeviceRegisters, {MacUnknown}) /\ InitScan /\ InitRest

Next ==
    \/ cmd_write
    \/ cmd_ok
    \/ cmd_err
    \/ connection_init_done
    \/ connection_subscribe_ok
    \/ connection_subscribe_err
    \/ \E s \in LightSettingsState : connection_recv(s)
    \/ connection_applied

Spec == Init /\ [][Next]_vars

\* The session's whole event loop, fed a few snapshots.
SampleStates ==
    {Default,
     [Default EXCEPT !.enabled = FALSE],
     [Default EXCEPT !.mode = Hsi, !.hue = 40]}

SampleRegisters ==
    {[power |-> s.enabled, mode |-> s.mode, hue |-> s.hue,
      saturation |-> s.saturation, intensity |-> s.intensity,
      temperature |-> s.temperature] : s \in SampleStates}

InitLifecycle == InitSession(SampleRegisters, ScannedMacs) /\ InitScan /\ InitRest

NextLifecycle ==
    \/ cmd_write
    \/ cmd_ok
    \/ cmd_err
    \/ connection_init_done
    \/ connection_subscribe_ok
    \/ connection_subscribe_err
    \/ \E s \in SampleStates : connection_recv(s)
    \/ connection_applied
    \/ connection_stream_end
    \/ connection_notification
    \/ connection_tick
    \/ health_check_ok
    \/ health_check_lost
    \/ reconnect_connect_err
    \/ reconnect_connect_ok
    \/ reconnect_sleep
    \/ reconnect_check
    \/ link_drop
    \/ stream_close

SpecLifecycle == InitLifecycle /\ [][NextLifecycle]_vars

\* The session of main.rs, fed the sample snapshots and its own default.
SpecMainInit == InitMain /\ InitScan /\ InitRest

NextMain ==
    \/ \E s \in SampleStates \cup {DefaultMain} : main_connection_recv(s)
    \/ cmd_write
    \/ cmd_ok
    \/ cmd_err
    \/ connection_applied
    \/ connection_stream_end
    \/ stream_close

SpecMain == SpecMainInit /\ [][NextMain]_vars

\* Every await of the session completes, one way or the other; select!
\* picks among its ready branches at random, so a branch that is ready again
\* and again is taken.  The environment (link_drop, stream_close) owes
\* nothing.
FairLifecycle ==
    /\ SpecLifecycle
    /\ WF_vars(cmd_write)
    /\ WF_vars(cmd_ok \/ cmd_err)
    /\ WF_vars(connection_init_done)
    /\ WF_vars(connection_subscribe_ok \/ connection_subscribe_err)
    /\ WF_vars(connection_applied)
    /\ SF_vars(connection_stream_end)
    /\ WF_vars(health_check_ok \/ health_check_lost)
    /\ WF_vars(reconnect_connect_err \/ reconnect_connect_ok)
    /\ WF_vars(reconnect_sleep)
    /\ WF_vars(reconnect_check)

\* The scanner, with the sessions it spawns seen only as live tasks.
InitScanner ==
    InitSession({[power |-> FALSE, mode |-> Cct, hue |-> DefaultHue,
                  saturation |-> DefaultSaturation,
                  intensity |-> DefaultIntensity,
                  temperature |-> DefaultTemperature]}, {MacUnknown})
    /\ InitScan
    /\ InitRest

NextScanner ==
    \/ scan_setup_ok
    \/ scan_setup_err
    \/ scan_setup_panic
    \/ \E vis \in Visible : scan_find(vis)
    \/ scan_find_err
    \/ scan_skip
    \/ \E outcome \in ConnectOutcomes : scan_connect(outcome)
    \/ scan_push_lock
    \/ scan_push
    \/ scan_spawn
    \/ scan_iter_done
    \/ scan_sleep
    \/ scan_hangup
    \/ \E id \in PeripheralIds : session_recv(id)
    \/ \E id \in PeripheralIds : session_write_ok(id)
    \/ \E id \in PeripheralIds : session_write_err(id)
    \/ \E id \in PeripheralIds : session_exit(id)

SpecScanner == InitScanner /\ [][NextScanner]_vars

\* The shared lights list: its producer (the scanner, or the demo producer
\* under --demo) and the GUI thread.
IdleSession ==
    InitSession({[power |-> FALSE, mode |-> Cct, hue |-> DefaultHue,
                  saturation |-> DefaultSaturation,
                  intensity |-> DefaultIntensity,
                  temperature |-> DefaultTemperature]}, {MacUnknown})

InitLights == IdleSession /\ (InitScan \/ InitDemo) /\ InitRest

NextLights ==
    \/ scan_setup_ok
    \/ scan_setup_err
    \/ scan_setup_panic
    \/ \E vis \in Visible : scan_find(vis)
    \/ scan_find_err
    \/ scan_skip
    \/ \E outcome \in ConnectOutcomes : scan_connect(outcome)
    \/ scan_push_lock
    \/ scan_push
    \/ scan_spawn
    \/ scan_iter_done
    \/ scan_sleep
    \/ scan_hangup
    \/ demo_lock
    \/ demo_push
    \/ demo_sleep
    \/ gui_lock
    \/ gui_unlock

SpecLights == InitLights /\ [][NextLights]_vars

\* discover_mac on a fresh handle, over every manufacturer data of up to
\* MaxEntries entries.
InitDiscover == IdleSession /\ InitScan /\ InitRest

NextDiscover == \E p \in PropertiesInputs : discover_mac_call(p)

SpecDiscover == InitDiscover /\ [][NextDiscover]_vars

\* The GUI with one light: what the user does, pass by pass, and the
\* session at the other end of the channel.
GuiInputs ==
    {NoEdit,
     Edit("settings", "update_mode", Immediate, 0),
     Edit("settings", "update_mode", Commit, 0),
     Edit("settings", "use_global", "", 0),
     Edit("settings", "commit_all", "", 0),
     Edit("light", "toggle", "", 0),
     Edit("light", "commit", "", 0),
     Edit("light", "mode", Hsi, 0),
     Edit("light", "mode", Cct, 0),
     Edit("light", "temperature", "", 5600),
     Edit("light", "hue", "", 520),
     Edit("global", "toggle", "", 0),
     Edit("global", "mode", Hsi, 0),
     Edit("global", "mode", Cct, 0)}

InitGuiSession == IdleSession /\ InitScan /\ InitRest

NextGui ==
    \/ \E e \in GuiInputs : gui_update(e)
    \/ chan_take
    \/ chan_close

SpecGui == InitGuiSession /\ [][NextGui]_vars

(***************************************************************************)
(* Properties.                                                             *)
(***************************************************************************)

\* The commands of the batch in hand: those written and those still to write.
Batch == sent \o pending

HasCommand(b, family, variant) ==
    \E i \in 1 .. Len(b) : b[i].family = family /\ b[i].variant = variant

\* The device shows snapshot s: power, mode and the scalars s.mode uses.
Converged(d, s) ==
    /\ d.power = s.enabled
    /\ d.mode = s.mode
    /\ d.intensity = s.intensity
    /\ s.mode = Hsi => d.hue = s.hue /\ d.saturation = s.saturation
    /\ s.mode = Cct => d.temperature = s.temperature

\* C1 (device convergence): whenever the session is back in its loop, after
\* the initial write and after any number of applied snapshots, the device's
\* registers show the last applied snapshot, whatever they held at first.
C1_DeviceConverges ==
    pc \in {"subscribe", "select"} => Converged(dev, previous_state)

\* C2 (scanner failure isolation): a failure of one device's connect, of its
\* service/characteristic lookup or of a properties read never ends the scan
\* stream: the scanner does not hang up because of it.
C2_DeviceFailureDoesNotEndScan ==
    scan_error \in {"connect", "characteristic", "properties"}
        => scan_pc # "hungup"

\* C3 (deduplication): for every transport id the scanner makes at most one
\* connect attempt and at most one session is live, however often the id is
\* reported again.
C3_AtMostOneAttemptAndSession ==
    \A id \in PeripheralIds : attempts[id] <= 1 /\ live[id] <= 1

\* An id that was reported again and skipped, with its one session live.
C3_Witness ==
    \E id \in skips : attempts[id] = 1 /\ live[id] = 1

\* C4 (mode-switch ordering): in the batch of the initial full write and of
\* every settings update, a Mode command is the last command of the batch.
C4_ModeIsLast ==
    \A i \in 1 .. Len(Batch) : Batch[i].family = "Mode" => i = Len(Batch)

\* An update that changed scalars and the mode, fully written, mode last.
C4_Witness ==
    /\ pc = "writing"
    /\ pending = <<>>
    /\ Len(sent) >= 3
    /\ sent[Len(sent)].family = "Mode"
    /\ dev.mode = state.mode
    /\ dev.mode # previous_state.mode

\* C5 (diff idempotence): applying the snapshot that is already the last
\* applied one writes no command.
C5_SameSnapshotWritesNothing ==
    (pc = "writing" /\ state = previous_state) => Batch = <<>>

\* A non-default snapshot received a second time.
C5_Witness ==
    /\ pc = "writing"
    /\ state = previous_state
    /\ state.mode = Hsi
    /\ ~state.enabled
    /\ sent = <<>>
    /\ pending = <<>>

\* C6 (field-level minimality): an update writes no Power, Mode, Hue,
\* Saturation, Intensity or ColorTemperature command whose field is the
\* same in the new snapshot as in the last applied one.
C6_UnchangedFieldNotWritten ==
    pc = "writing" =>
        /\ state.enabled = previous_state.enabled =>
              ~HasCommand(Batch, "Power", "On") /\ ~HasCommand(Batch, "Power", "Off")
        /\ state.mode = previous_state.mode =>
              ~HasCommand(Batch, "Mode", Hsi) /\ ~HasCommand(Batch, "Mode", Cct)
        /\ state.hue = previous_state.hue => ~HasCommand(Batch, "Hsi", "Hue")
        /\ state.saturation = previous_state.saturation =>
              ~HasCommand(Batch, "Hsi", "Saturation")
        /\ state.intensity = previous_state.intensity =>
              ~HasCommand(Batch, "Hsi", "Intensity")
        /\ state.temperature = previous_state.temperature =>
              ~HasCommand(Batch, "ColorTemperature", "Kelvin")

\* An Hsi update that changed the saturation alone, fully written.
C6_Witness ==
    /\ pc = "writing"
    /\ pending = <<>>
    /\ previous_state.mode = Hsi
    /\ state = [previous_state EXCEPT !.saturation = 30]
    /\ previous_state.saturation = 100
    /\ sent = <<HsiCommand("Saturation", 30)>>

\* The command of each scalar field that s.mode uses, in the order of the
\* specification.
ModeFields(s) ==
    IF s.mode = Hsi
      THEN <<[field |-> "hue", cmd |-> HsiCommand("Hue", s.hue)],
             [field |-> "saturation",
              cmd |-> HsiCommand("Saturation", s.saturation)],
             [field |-> "intensity",
              cmd |-> HsiCommand("Intensity", s.intensity)]>>
      ELSE <<[field |-> "temperature",
              cmd |-> ColorTemperatureCommand(s.temperature)],
             [field |-> "intensity",
              cmd |-> HsiCommand("Intensity", s.intensity)]>>

\* Those of them whose field differs between s and p, in that order.
DifferingFields(s, p) ==
    LET Differs(e) == s[e.field] # p[e.field]
        sel == SelectSeq(ModeFields(s), Differs)
    IN  [i \in 1 .. Len(sel) |-> sel[i].cmd]

\* C7 (power first, disabling does not suppress): when enabled changes, the
\* first command of the batch is Power(On) or Power(Off) as the new snapshot
\* says; and when the new snapshot is disabled, the command of every differing
\* scalar of its mode still follows in the batch.
C7_PowerFirstAndNotSuppressing ==
    (pc = "writing" /\ state.enabled # previous_state.enabled) =>
        /\ Batch # <<>>
        /\ Batch[1] = PowerCommand(state.enabled)
        /\ ~state.enabled =>
              \A k \in 1 .. Len(DifferingFields(state, previous_state)) :
                 \E i \in 2 .. Len(Batch) :
                    Batch[i] = DifferingFields(state, previous_state)[k]

\* Cct, temperature 5 -> 9 and enabled true -> false: Power(Off) then
\* ColorTemperature(9), both written.
C7_Witness ==
    /\ pc = "writing"
    /\ pending = <<>>
    /\ previous_state.mode = Cct
    /\ previous_state.enabled
    /\ previous_state.temperature = 5
    /\ state = [previous_state EXCEPT !.enabled = FALSE, !.temperature = 9]
    /\ sent = <<PowerCommand(FALSE), ColorTemperatureCommand(9)>>
    /\ ~dev.power
    /\ dev.temperature = 9

\* The batch without its leading Power and its trailing Mode command.
Between(b) ==
    LET from == IF b # <<>> /\ b[1].family = "Power" THEN 2 ELSE 1
        to == IF b # <<>> /\ b[Len(b)].family = "Mode" THEN Len(b) - 1 ELSE Len(b)
    IN  IF from > to THEN <<>> ELSE SubSeq(b, from, to)

\* C8 (per-mode batch shape): between the optional Power and the optional
\* Mode command, the batch is exactly the commands of the differing scalars
\* of the new mode, Hue, Saturation, Intensity for Hsi and ColorTemperature,
\* Intensity for Cct, in that order; an Hsi update of hue 0 -> 40 alone is
\* exactly [Hue(40)].
C8_BatchShape ==
    pc = "writing" =>
        /\ Between(Batch) = DifferingFields(state, previous_state)
        /\ ( /\ previous_state.mode = Hsi
             /\ previous_state.hue = 0
             /\ state = [previous_state EXCEPT !.hue = 40] )
           => Batch = <<HsiCommand("Hue", 40)>>

\* Hsi, hue 0 -> 40 and nothing else: [Hue(40)] written.
C8_Witness ==
    /\ pc = "writing"
    /\ pending = <<>>
    /\ previous_state.mode = Hsi
    /\ previous_state.hue = 0
    /\ state = [previous_state EXCEPT !.hue = 40]
    /\ sent = <<HsiCommand("Hue", 40)>>

\* The initial full write of the default snapshot.
InitialBatch ==
    <<PowerCommand(TRUE), ColorTemperatureCommand(32),
      HsiCommand("Intensity", 10), ModeCommand(Cct)>>

\* C9 (initial full write): before the session consumes a snapshot or handles
\* a tick or a notification, it has written Power(On), ColorTemperature,
\* Intensity, Mode(Cct) for its default snapshot, in that order, whatever the
\* device held; while it is still writing them nothing else was written.
C9_InitialFullWrite ==
    /\ pc = "init_write" => init_log = <<>> /\ Batch = InitialBatch
    /\ pc \in {"subscribe", "select", "writing", "health", "reconnect",
               "sleep", "check", "done"} => init_log = InitialBatch
    /\ init_log \in {<<>>, InitialBatch}

\* The session in its loop for the first time, the four commands written.
C9_Witness ==
    /\ pc = "select"
    /\ init_log = InitialBatch
    /\ previous_state = Default
    /\ dev.power /\ dev.mode = Cct /\ dev.temperature = 32 /\ dev.intensity = 10

Exited == pc \in {"done", "failed"}
InReconnectLoop == pc \in {"reconnect", "sleep", "check"}

\* C10 as stated (session termination on stream end): once the stream is
\* closed the session task eventually exits, whatever state it is in.
C10_ExitsOnceStreamClosed == (~stream_open) ~> Exited

\* C10 as amended: once the stream is closed the session task eventually
\* exits or is in the reconnect loop of its health check.
C10_ExitsUnlessReconnecting == (~stream_open) ~> (Exited \/ InReconnectLoop)

\* The stream closed and the session ended by the None it read.
C10_Witness == ~stream_open /\ pc = "done" /\ link = "down"

\* C11 as stated (reconnect delay): whenever the reconnect loop is about to
\* call connect(), it is its first attempt or the 5 s sleep came just before;
\* two connect attempts are never back to back.
C11_DelayBetweenAttempts ==
    pc = "reconnect" => last_connect \in {"none", "slept"}

\* C12 (reconnect exit condition): the session leaves the reconnect loop only
\* for its event loop, and only at the liveness query that follows a
\* successful connect and answers true; it never gives up or exits from
\* inside the loop, however many attempts have failed.
C12_ExitOnlyWhenLive ==
    [][(InReconnectLoop /\ ~InReconnectLoop')
         => /\ pc = "check" /\ pc' = "select"
            /\ last_connect = "ok"
            /\ link = "up"]_vars

\* Back in the event loop after the most failed attempts the model counts.
C12_Witness ==
    /\ pc = "select"
    /\ last_connect = "ok"
    /\ failures = MaxFailures
    /\ link = "up"

\* C13 (reconnect blocks the session): a step taken inside the reconnect
\* loop consumes no snapshot, writes no frame and handles no notification.
C13_ReconnectBlocks ==
    [][InReconnectLoop
         => UNCHANGED <<state, previous_state, pending, sent, in_flight, dev,
                        last_event>>]_vars

\* The session asleep between two attempts while its stream is still open.
C13_Witness ==
    /\ pc = "sleep"
    /\ stream_open
    /\ link = "down"
    /\ last_event = "tick"

\* C16 (ordered, non-overlapping writes): at most one write is in flight;
\* the frames written so far and the frames still to write are, in this
\* order, the batch the dispatcher produced for the update in hand; and the
\* session is back at its select!, where the next update is taken, only
\* with every frame of the batch written and none in flight.
C16_OrderedNonOverlapping ==
    /\ in_flight \in {0, 1}
    /\ in_flight = 1 => pending # <<>>
    /\ pc = "writing" => Batch = write_state(state, previous_state)
    /\ pc = "init_write" => Batch = write_state_no_cmp(Default)
    /\ pc = "select" => pending = <<>> /\ in_flight = 0

\* A later update half written: one frame out, one in flight, more to come.
C16_Witness ==
    /\ pc = "writing"
    /\ init_log # <<>>
    /\ in_flight = 1
    /\ Len(sent) >= 1
    /\ Len(pending) >= 2

\* C17 (hardware address is write-once): every change of the handle's
\* address is from Unknown to Known, so it changes at most once and is never
\* changed or cleared once Known; a tick on a handle whose address is
\* Known leaves it alone whatever the properties hold.
C17_AddressWriteOnce ==
    [][/\ mac' # mac => ~mac.known /\ mac'.known
       /\ mac_changes' <= 1]_vars

\* An address resolved by a tick, the session at a later health check.
C17_Witness ==
    /\ mac = MacKnown(<<170, 255, 187, 204, 221, 238>>)
    /\ mac_changes = 1
    /\ pc = "health"
    /\ failures >= 1

\* C14 (write failure is fatal to the owning session only): a session whose
\* write failed stays failed, with no step left to it (no snapshot to take,
\* no frame to write); the failing step ends that one task and leaves every
\* other session's task as it was; and a running session can take its next
\* snapshot and write its next frame whatever the others have come to.
C14_FailureEndsOwnSessionOnly ==
    [][\A id \in PeripheralIds :
         /\ task[id] = "failed"
              => /\ task'[id] = "failed"
                 /\ ~ENABLED session_recv(id)
                 /\ ~ENABLED session_write_ok(id)
                 /\ ~ENABLED session_write_err(id)
         /\ (task[id] = "running" /\ task'[id] = "failed")
              => /\ live'[id] = live[id] - 1
                 /\ \A j \in PeripheralIds \ {id} :
                       task'[j] = task[j] /\ live'[j] = live[j]
         /\ task[id] = "running"
              => ENABLED session_recv(id) /\ ENABLED session_write_ok(id)]_vars

\* One session has failed, another is running.
C14_Witness ==
    \E i, j \in PeripheralIds :
        /\ i # j
        /\ task[i] = "failed" /\ live[i] = 0
        /\ task[j] = "running" /\ live[j] = 1

\* C15 (no automatic rediscovery): the set of seen ids only grows, and for
\* an id whose session exited on a write failure no connect is attempted, no
\* handle is yielded and no session is created any more.
C15_NoRediscovery ==
    [][/\ connected \subseteq connected'
       /\ \A id \in PeripheralIds :
            task[id] = "failed"
              => /\ id \in connected'
                 /\ attempts'[id] = attempts[id]
                 /\ live'[id] = 0
                 /\ led' # id
                 /\ task'[id] = "failed"]_vars

\* The failed device is reported by a later poll round and about to be
\* looked at by the scanner.
C15_Witness ==
    /\ scan_pc = "iter"
    /\ leds # <<>>
    /\ task[Head(leds)] = "failed"
    /\ live[Head(leds)] = 0

\* C18 (name filter): every id the scanner has queued for a connect, tried to
\* connect to, marked seen, yielded a handle or spawned a session for was
\* reported with the local name "BT_LED".
C18_OnlyNamedLeds ==
    /\ \A i \in DOMAIN leds : leds[i] \in named
    /\ connected \subseteq named
    /\ led # 0 => led \in named
    /\ \A id \in PeripheralIds :
          (attempts[id] > 0 \/ live[id] > 0 \/ task[id] # "none")
             => id \in named

\* Reports under other names or with no name have come in, one peripheral
\* was never reported as "BT_LED" and was left alone, another was and has
\* its session.
C18_Witness ==
    /\ passed_over
    /\ \E i, j \in PeripheralIds :
          /\ i \notin named
          /\ attempts[i] = 0 /\ task[i] = "none"
          /\ j \in named /\ task[j] = "running"

\* C19 (lock discipline): the scanner holds the lock of the lights list only
\* while it pushes a handle and the demo producer only while it pushes a
\* fake device, never where they await (poll, sleep, connect); no session
\* ever holds it.
C19_LockOnlyForPush ==
    /\ lock \in {"free", "scanner", "demo", "gui"}
    /\ lock = "scanner" => scan_pc = "pushing"
    /\ lock = "demo" => demo_pc = "push"
    /\ scan_pc = "pushing" => lock = "scanner"
    /\ demo_pc = "push" => lock = "demo"

\* The scanner awaiting its next poll after a push, the lock with the GUI.
C19_Witness ==
    /\ scan_pc = "sleep"
    /\ lights >= 1
    /\ lock = "gui"

\* The Power commands written so far: by the initial write and by the
\* update in hand.
WrittenPower ==
    {c \in {init_log[i] : i \in DOMAIN init_log} \cup {sent[i] : i \in DOMAIN sent} :
       c.family = "Power"}

GoldenOn == <<76, 84, 9, 0, 48, 87, 0, 0, 1, 1, 34, 223>>
GoldenOff == <<76, 84, 9, 0, 48, 87, 0, 0, 1, 0, 50, 254>>

C21_MainPowerFirst ==
    (pc = "writing" /\ state.enabled # previous_state.enabled)
       => (Batch # <<>> /\ Head(Batch) = PowerCommand(state.enabled))

\* C22 (last-applied tracking): the last-applied snapshot changes only when
\* the whole batch of the update in hand has been written, and then to that
\* update's snapshot; a step that fails a write leaves it alone; so outside
\* an update being written or failed it is the most recent snapshot taken
\* from the stream, or the default when none was taken.
C22_LastAppliedTracking ==
    [][/\ previous_state' # previous_state
            => /\ pc = "writing" /\ pc' = "select"
               /\ pending = <<>> /\ in_flight = 0
               /\ sent = write_state(state, previous_state)
               /\ previous_state' = state
       /\ pc' = "failed" => previous_state' = previous_state
       /\ pc' \notin {"writing", "failed"} => previous_state' = state'
       /\ (pc' # "writing" /\ last_event' = "none")
            => previous_state' = Default]_vars

\* An update failed after its first frame: it did not become last-applied.
C22_Witness ==
    /\ pc = "failed"
    /\ init_log # <<>>
    /\ sent # <<>>
    /\ pending # <<>>
    /\ previous_state # state

\* A step of the health-check tick (the tick itself, the liveness query, the
\* reconnect loop) or a step taken at select! that is not a settings update
\* (a notification; the environment's own steps).
NotAnUpdateStep ==
    \/ pc \in {"health", "reconnect", "sleep", "check"}
    \/ pc = "select" /\ pc' \in {"select", "health"}

\* C23 (only settings updates touch the device state): a notification and
\* every step of a health-check tick, a whole disconnect/reconnect cycle
\* included, write no frame, start no batch and leave the last-applied
\* snapshot as it was; the session is back at select! after a reconnect
\* with nothing to write.
C23_OnlyUpdatesWrite ==
    [][/\ NotAnUpdateStep
            => UNCHANGED <<previous_state, state, pending, sent, in_flight,
                           init_log, dev>>
       /\ (pc = "check" /\ pc' = "select")
            => pending' = <<>> /\ in_flight' = 0]_vars

\* Back at select! after a reconnect, an update applied before it, nothing
\* written since.
C23_Witness ==
    /\ pc = "select"
    /\ last_event = "tick"
    /\ last_connect = "ok"
    /\ previous_state # Default
    /\ pending = <<>>
    /\ sent = <<>>

\* The places of the manufacturer data last read whose value has exactly
\* four bytes.
FourByteEntries ==
    {i \in DOMAIN probe_properties.data :
       Len(probe_properties.data[i].suffix) = 4}

\* C25 (address construction): after a discover_mac call, the address is
\* Known exactly when the properties were read and hold an entry with a
\* 4-byte value, and it is then [low byte of the key, high byte of the key,
\* value bytes 1 to 4] of such an entry; with properties read and no such
\* entry the call returned Ok and the address is as it was (Unknown).
C25_AddressConstruction ==
    probe_properties # Unread
       => /\ mac.known
               => /\ probe_properties.status = "ok"
                  /\ discover_ok
                  /\ \E i \in FourByteEntries :
                        LET e == probe_properties.data[i]
                        IN  mac.bytes = <<e.prefix % 256, e.prefix \div 256>>
                                          \o e.suffix
          /\ (probe_properties.status = "ok" /\ FourByteEntries = {})
               => discover_ok /\ mac = MacUnknown
          /\ (probe_properties.status = "ok" /\ FourByteEntries # {})
               => mac.known
          /\ discover_ok = (probe_properties.status = "ok")

\* The address built from the key 0x0100 after a 5-byte and an empty entry
\* were passed over.
C25_Witness ==
    /\ probe_properties.status = "ok"
    /\ probe_properties.data = <<EntryLong, EntryEmpty, EntryC>>
    /\ mac = MacKnown(<<0, 1, 9, 8, 7, 6>>)

\* The domains the snapshot fields are stated to have.
StatedDomains(s) ==
    /\ s.hue \in 0 .. 82
    /\ s.saturation \in 0 .. 100
    /\ s.intensity \in 0 .. 100
    /\ s.temperature \in 0 .. 24

\* C24 (snapshot domains): every snapshot the GUI has placed on the light's
\* channel has hue in [0, 83), saturation and intensity in [0, 100] and
\* temperature in [0, 24].
C24_SnapshotDomains ==
    send_result = "ok" => StatedDomains(last_sent)

\* C26 (no unsent change is forgotten): after every render pass the light's
\* settings equal the last snapshot placed on its channel (the default when
\* none was), or pending_send or state_needs_update is set; a try_send that
\* found the channel full leaves pending_send set; and a pass that starts
\* with pending_send set calls try_send.
C26_NoChangeForgotten ==
    [][/\ \/ light_state' = last_sent'
          \/ pending_send'
          \/ state_needs_update'
       /\ send_result' = "full" => pending_send'
       /\ (pending_send /\ chan_len' >= chan_len /\ chan_open' = chan_open)
            => send_result' # "none"]_vars

\* A pass found the channel full while the light's settings differ from the
\* last snapshot sent, and the send is retained.
C26_Witness ==
    /\ send_result = "full"
    /\ chan_len = ChannelCapacity
    /\ light_state # last_sent
    /\ pending_send

=============================================================================
